---- MODULE Spec2Model ----
(***************************************************************************)
(* Model of superset/connectors/vaex/views.py: the admin-console screens   *)
(* of the Vaex connector (Column, Metric, Cluster, Datasource), their      *)
(* add/update hooks, and the two metadata refresh endpoints.               *)
(*                                                                         *)
(* Five specifications share the variables:                                *)
(*   SpecValidate    one form submitted to the Column screen, as an add or *)
(*                   as an edit, its dimension spec drawn from JSON texts; *)
(*   SpecCrud        add / edit / delete requests on the four screens;     *)
(*   SpecMetric      requests on the Metric screen;                        *)
(*   SpecDatasource  requests on the Datasource screen;                    *)
(*   SpecRefresh     requests to /vaex/refresh_datasources/ and            *)
(*                   /vaex/scan_new_datasources/ over the stored clusters. *)
(***************************************************************************)
EXTENDS Integers, Sequences, FiniteSets, TLC

VARIABLES
    columns,      \* Column table: pk -> [column_name, dimension_spec_json]
    metrics,      \* Metric table: pk -> [metric_name, is_restricted]
    datasources,  \* Datasource table: pk -> [name, schema]
    clusters,     \* Cluster table: pk -> [cluster_name]
    perms,        \* security_manager: registered <<permission, view_menu>> pairs
    last,         \* outcome of the last CRUD request
    pending,      \* SpecValidate: the Column form about to be submitted
    order,        \* SpecRefresh: session.query(VaexCluster).all(), a sequence of cluster ids
    failing,      \* SpecRefresh: clusters whose refresh_datasources raises
    session_ts,   \* metadata_last_refreshed of the session's cluster objects
    stored_ts,    \* metadata_last_refreshed of the committed cluster rows
    clock,        \* datetime.now()
    req,          \* the refresh request in progress
    seen          \* the finished refresh requests, by endpoint

vars == <<columns, metrics, datasources, clusters, perms, last, pending,
          order, failing, session_ts, stored_ts, clock, req, seen>>

crudVars == <<columns, metrics, datasources, clusters, perms, last, pending>>
refreshVars == <<order, failing, session_ts, stored_ts, clock, req, seen>>

(***************************************************************************)
(* Bounds                                                                  *)
(***************************************************************************)
MaxPairs == 2       \* key/value pairs in a generated JSON object
MaxPk == 2          \* rows per table
MaxRows == 2        \* rows in the four tables together
MaxClusters == 3    \* clusters in SpecRefresh
MaxRequests == 2    \* refresh requests served in one behaviour of SpecRefresh

(***************************************************************************)
(* JSON texts.  A text is a sequence of tokens <<kind, spelling>>:         *)
(*   "p" punctuation, "s" a string literal, "n" a number literal,          *)
(*   "w" a bare word, "ws" white space.                                    *)
(***************************************************************************)
LBRACE == <<"p", "{">>
RBRACE == <<"p", "}">>
LBRACK == <<"p", "[">>
RBRACK == <<"p", "]">>
COLON == <<"p", ":">>
COMMA == <<"p", ",">>
SPACE == <<"ws", " ">>

ColumnNames == {"a", "1"}

\* Python values json.loads produces: <<"str", s>>, <<"num", n>>, <<"None">>,
\* <<"bool", b>>, <<"list", elements>>, <<"dict", mapping>> (a function on its keys).
EmptyDict == [k \in {} |-> <<"None">>]

ParseFail == [ok |-> FALSE, val |-> <<"None">>, pos |-> 0]

ParseOk(v, p) == [ok |-> TRUE, val |-> v, pos |-> p]

\* dict[key] = val: a repeated key keeps the last value.
DictSet(d, key, val) ==
    [k \in (DOMAIN d) \cup {key} |-> IF k = key THEN val ELSE d[k]]

RECURSIVE ParseValue(_, _)
RECURSIVE ParseMembers(_, _, _)
RECURSIVE ParseElements(_, _, _)

\* One JSON value starting at toks[i]; pos is the index after it.
ParseValue(toks, i) ==
    IF i > Len(toks) THEN ParseFail
    ELSE LET t == toks[i] IN
         CASE t[1] = "s" -> ParseOk(<<"str", t[2]>>, i + 1)
           [] t[1] = "n" -> ParseOk(<<"num", t[2]>>, i + 1)
           [] t[1] = "w" ->
                IF t[2] = "null" THEN ParseOk(<<"None">>, i + 1)
                ELSE IF t[2] \in {"true", "false"} THEN ParseOk(<<"bool", t[2]>>, i + 1)
                ELSE ParseFail
           [] t = LBRACE ->
                IF i + 1 <= Len(toks) /\ toks[i + 1] = RBRACE
                THEN ParseOk(<<"dict", EmptyDict>>, i + 2)
                ELSE ParseMembers(toks, i + 1, EmptyDict)
           [] t = LBRACK ->
                IF i + 1 <= Len(toks) /\ toks[i + 1] = RBRACK
                THEN ParseOk(<<"list", <<>>>>, i + 2)
                ELSE ParseElements(toks, i + 1, <<>>)
           [] OTHER -> ParseFail

\* "key" : value { , "key" : value } "}"
ParseMembers(toks, i, d) ==
    IF i + 1 > Len(toks) \/ toks[i][1] # "s" \/ toks[i + 1] # COLON THEN ParseFail
    ELSE LET r == ParseValue(toks, i + 2) IN
         IF ~r.ok \/ r.pos > Len(toks) THEN ParseFail
         ELSE LET d2 == DictSet(d, toks[i][2], r.val) IN
              IF toks[r.pos] = RBRACE THEN ParseOk(<<"dict", d2>>, r.pos + 1)
              ELSE IF toks[r.pos] = COMMA THEN ParseMembers(toks, r.pos + 1, d2)
              ELSE ParseFail

\* value { , value } "]"
ParseElements(toks, i, acc) ==
    LET r == ParseValue(toks, i) IN
    IF ~r.ok \/ r.pos > Len(toks) THEN ParseFail
    ELSE LET acc2 == Append(acc, r.val) IN
         IF toks[r.pos] = RBRACK THEN ParseOk(<<"list", acc2>>, r.pos + 1)
         ELSE IF toks[r.pos] = COMMA THEN ParseElements(toks, r.pos + 1, acc2)
         ELSE ParseFail

\* The scanner skips white space between tokens.
SkipSpace(toks) == SelectSeq(toks, LAMBDA t : t # SPACE)

\* json.loads(text): one value and nothing after it, else ValueError.
json_loads(text) ==
    LET toks == SkipSpace(text)
        r == ParseValue(toks, 1)
    IN  IF r.ok /\ r.pos = Len(toks) + 1 THEN r ELSE ParseFail


(***************************************************************************)
(* Column screen (VaexColumnInlineView)                                    *)
(***************************************************************************)
NoError == "ok"
AccessDenied == "access denied"

\* if col.dimension_spec_json: -- None and '' are falsy.
Truthy(spec) == spec.present /\ Len(spec.text) > 0

\* pre_update without the check for the dimension key
Column_pre_update_no_dimension(col) ==
    IF ~Truthy(col.dimension_spec_json) THEN NoError
    ELSE LET r == json_loads(col.dimension_spec_json.text) IN
         IF ~r.ok THEN "Invalid Dimension Spec JSON"
         ELSE IF r.val[1] # "dict" THEN "Dimension Spec must be a JSON object"
         ELSE IF "outputName" \notin DOMAIN r.val[2]
              THEN "Dimension Spec does not contain outputName"
         ELSE IF r.val[2]["outputName"] # <<"str", col.column_name>>
              THEN "outputName unequal to column_name"
         ELSE NoError

\* pre_update with the dimension check placed before the outputName check
Column_pre_update_dimension_first(col) ==
    IF ~Truthy(col.dimension_spec_json) THEN NoError
    ELSE LET r == json_loads(col.dimension_spec_json.text) IN
         IF ~r.ok THEN "Invalid Dimension Spec JSON"
         ELSE IF r.val[1] # "dict" THEN "Dimension Spec must be a JSON object"
         ELSE IF "dimension" \notin DOMAIN r.val[2]
              THEN "Dimension Spec is missing dimension"
         ELSE IF "outputName" \notin DOMAIN r.val[2]
              THEN "Dimension Spec does not contain outputName"
         ELSE IF r.val[2]["outputName"] # <<"str", col.column_name>>
              THEN "outputName unequal to column_name"
         ELSE NoError

\* The error pre_update raises for col, NoError when it returns normally.
Column_pre_update(col) ==
    IF ~Truthy(col.dimension_spec_json) THEN NoError
    ELSE LET r == json_loads(col.dimension_spec_json.text) IN
         IF ~r.ok THEN "Invalid Dimension Spec JSON"
         ELSE IF r.val[1] # "dict" THEN "Dimension Spec must be a JSON object"
         ELSE IF "outputName" \notin DOMAIN r.val[2]
              THEN "Dimension Spec does not contain outputName"
         ELSE IF "dimension" \notin DOMAIN r.val[2]
              THEN "Dimension Spec is missing dimension"
         ELSE IF r.val[2]["outputName"] # <<"str", col.column_name>>
              THEN "outputName unequal to column_name"
         ELSE NoError

\* The external calls post_update makes: col.refresh_metrics().
Column_post_update(col, pk) == << <<"refresh_metrics", "", <<"column", col.column_name, pk>>>> >>

Column_post_add(col, pk) == Column_post_update(col, pk)

\* The Column screen without can_delete = False
ColumnCanDelete_default == TRUE

\* can_delete = False on the Column screen.
ColumnCanDelete == FALSE

\* security_manager.merge_perm for every merge_perm call of a hook.
Merged(calls) == {<<calls[i][2], calls[i][3]>> : i \in {j \in DOMAIN calls : calls[j][1] = "merge_perm"}}

Pks == 1..MaxPk

FreePk(table) == Pks \ DOMAIN table

Rows ==
    Cardinality(DOMAIN columns) + Cardinality(DOMAIN metrics)
    + Cardinality(DOMAIN clusters) + Cardinality(DOMAIN datasources)

NewPk(table) == CHOOSE pk \in FreePk(table) : \A q \in FreePk(table) : pk <= q

Insert(table, pk, row) == [k \in (DOMAIN table) \cup {pk} |-> IF k = pk THEN row ELSE table[k]]

Remove(table, pk) == [k \in (DOMAIN table) \ {pk} |-> table[k]]

Outcome(view, op, pk, error, calls, removed) ==
    [view |-> view, op |-> op, pk |-> pk, error |-> error, calls |-> calls, removed |-> removed]

NoRequest == Outcome("none", "none", 0, NoError, <<>>, FALSE)

\* An add that runs the update validator first
ColumnAdd_validating(form) ==
    /\ FreePk(columns) # {}
    /\ Rows < MaxRows
    /\ LET pk == NewPk(columns)
           err == Column_pre_update(form)
           calls == IF err = NoError THEN Column_post_add(form, pk) ELSE <<>>
       IN  /\ columns' = IF err = NoError THEN Insert(columns, pk, form) ELSE columns
           /\ perms' = perms \cup Merged(calls)
           /\ last' = Outcome("column", "add", pk, err, calls, FALSE)
    /\ UNCHANGED <<metrics, datasources, clusters, pending>>
    /\ UNCHANGED refreshVars

\* Add form posted to the Column screen: no pre_add hook, the row is written, post_add runs.
ColumnAdd(form) ==
    /\ FreePk(columns) # {}
    /\ Rows < MaxRows
    /\ LET pk == NewPk(columns)
           calls == Column_post_add(form, pk)
       IN  /\ columns' = Insert(columns, pk, form)
           /\ perms' = perms \cup Merged(calls)
           /\ last' = Outcome("column", "add", pk, NoError, calls, FALSE)
    /\ UNCHANGED <<metrics, datasources, clusters, pending>>
    /\ UNCHANGED refreshVars

\* Edit form posted to the Column screen: pre_update, then the write, then post_update.
ColumnUpdate(pk, form) ==
    /\ pk \in DOMAIN columns
    /\ LET err == Column_pre_update(form)
           calls == IF err = NoError THEN Column_post_update(form, pk) ELSE <<>>
       IN  /\ columns' = IF err = NoError THEN Insert(columns, pk, form) ELSE columns
           /\ perms' = perms \cup Merged(calls)
           /\ last' = Outcome("column", "update", pk, err, calls, FALSE)
    /\ UNCHANGED <<metrics, datasources, clusters, pending>>
    /\ UNCHANGED refreshVars

\* Delete request on the Column screen.
ColumnDelete(pk) ==
    /\ pk \in DOMAIN columns
    /\ columns' = IF ColumnCanDelete THEN Remove(columns, pk) ELSE columns
    /\ last' = Outcome("column", "delete", pk,
                       IF ColumnCanDelete THEN NoError ELSE AccessDenied, <<>>, ColumnCanDelete)
    /\ UNCHANGED <<metrics, datasources, clusters, perms, pending>>
    /\ UNCHANGED refreshVars


(***************************************************************************)
(* Metric screen (VaexMetricInlineView)                                    *)
(***************************************************************************)
\* metric.get_perm(): a key derived from the metric's identity.
Metric_get_perm(metric, pk) == <<"metric", metric.metric_name, pk>>

Metric_post_add(metric, pk) ==
    IF metric.is_restricted
    THEN << <<"merge_perm", "metric_access", Metric_get_perm(metric, pk)>> >>
    ELSE <<>>

\* post_update that forgets the permission
Metric_post_update_silent(metric, pk) == <<>>

Metric_post_update(metric, pk) ==
    IF metric.is_restricted
    THEN << <<"merge_perm", "metric_access", Metric_get_perm(metric, pk)>> >>
    ELSE <<>>

\* The Metric screen sets no can_delete: the screen keeps its delete action.
MetricCanDelete == TRUE

MetricAdd(form) ==
    /\ FreePk(metrics) # {}
    /\ Rows < MaxRows
    /\ LET pk == NewPk(metrics)
           calls == Metric_post_add(form, pk)
       IN  /\ metrics' = Insert(metrics, pk, form)
           /\ perms' = perms \cup Merged(calls)
           /\ last' = Outcome("metric", "add", pk, NoError, calls, FALSE)
    /\ UNCHANGED <<columns, datasources, clusters, pending>>
    /\ UNCHANGED refreshVars

MetricUpdate(pk, form) ==
    /\ pk \in DOMAIN metrics
    /\ LET calls == Metric_post_update(form, pk)
       IN  /\ metrics' = Insert(metrics, pk, form)
           /\ perms' = perms \cup Merged(calls)
           /\ last' = Outcome("metric", "update", pk, NoError, calls, FALSE)
    /\ UNCHANGED <<columns, datasources, clusters, pending>>
    /\ UNCHANGED refreshVars

MetricDelete(pk) ==
    /\ pk \in DOMAIN metrics
    /\ metrics' = IF MetricCanDelete THEN Remove(metrics, pk) ELSE metrics
    /\ last' = Outcome("metric", "delete", pk,
                       IF MetricCanDelete THEN NoError ELSE AccessDenied, <<>>, MetricCanDelete)
    /\ UNCHANGED <<columns, datasources, clusters, perms, pending>>
    /\ UNCHANGED refreshVars

(***************************************************************************)
(* Cluster screen (VaexClusterModelView)                                   *)
(***************************************************************************)
\* cluster.perm; pk is 0 while the row has no id yet.
Cluster_perm(cluster, pk) == <<"cluster", cluster.cluster_name, pk>>

Cluster_pre_add(cluster, pk) ==
    << <<"merge_perm", "database_access", Cluster_perm(cluster, pk)>> >>

Cluster_pre_update(cluster, pk) == Cluster_pre_add(cluster, pk)

\* _delete hands over to DeleteMixin._delete: the row is deleted.
ClusterCanDelete == TRUE

ClusterAdd(form) ==
    /\ FreePk(clusters) # {}
    /\ Rows < MaxRows
    /\ LET pk == NewPk(clusters)
           calls == Cluster_pre_add(form, 0)
       IN  /\ clusters' = Insert(clusters, pk, form)
           /\ perms' = perms \cup Merged(calls)
           /\ last' = Outcome("cluster", "add", pk, NoError, calls, FALSE)
    /\ UNCHANGED <<columns, metrics, datasources, pending>>
    /\ UNCHANGED refreshVars

ClusterUpdate(pk, form) ==
    /\ pk \in DOMAIN clusters
    /\ LET calls == Cluster_pre_update(form, pk)
       IN  /\ clusters' = Insert(clusters, pk, form)
           /\ perms' = perms \cup Merged(calls)
           /\ last' = Outcome("cluster", "update", pk, NoError, calls, FALSE)
    /\ UNCHANGED <<columns, metrics, datasources, pending>>
    /\ UNCHANGED refreshVars

ClusterDelete(pk) ==
    /\ pk \in DOMAIN clusters
    /\ clusters' = IF ClusterCanDelete THEN Remove(clusters, pk) ELSE clusters
    /\ last' = Outcome("cluster", "delete", pk,
                       IF ClusterCanDelete THEN NoError ELSE AccessDenied, <<>>, ClusterCanDelete)
    /\ UNCHANGED <<columns, metrics, datasources, perms, pending>>
    /\ UNCHANGED refreshVars

(***************************************************************************)
(* Datasource screen (VaexDatasourceModelView)                             *)
(***************************************************************************)
\* datasource.get_perm(): a key derived from the datasource's name and id.
Datasource_get_perm(datasource, pk) == <<"datasource", datasource.name, pk>>

\* datasource.schema_perm
Datasource_schema_perm(datasource) == <<"schema", datasource.schema, 0>>

Datasource_post_add(datasource, pk) ==
    << <<"refresh_metrics", "", <<"datasource", datasource.name, pk>>>>,
       <<"merge_perm", "datasource_access", Datasource_get_perm(datasource, pk)>> >>
    \o (IF datasource.schema # ""
        THEN << <<"merge_perm", "schema_access", Datasource_schema_perm(datasource)>> >>
        ELSE <<>>)

\* post_update: the call of post_add is commented out; update_metadata() is all it does.
Datasource_post_update(datasource, pk) ==
    << <<"update_metadata", "", <<"datasource", datasource.name, pk>>>> >>

DatasourceCanDelete == TRUE

DatasourceAdd(form) ==
    /\ FreePk(datasources) # {}
    /\ Rows < MaxRows
    /\ LET pk == NewPk(datasources)
           calls == Datasource_post_add(form, pk)
       IN  /\ datasources' = Insert(datasources, pk, form)
           /\ perms' = perms \cup Merged(calls)
           /\ last' = Outcome("datasource", "add", pk, NoError, calls, FALSE)
    /\ UNCHANGED <<columns, metrics, clusters, pending>>
    /\ UNCHANGED refreshVars

\* The edit form carries name, source_url and format; the schema stays the row's.
DatasourceUpdate(pk, name) ==
    /\ pk \in DOMAIN datasources
    /\ LET row == [datasources[pk] EXCEPT !.name = name]
           calls == Datasource_post_update(row, pk)
       IN  /\ datasources' = Insert(datasources, pk, row)
           /\ perms' = perms \cup Merged(calls)
           /\ last' = Outcome("datasource", "update", pk, NoError, calls, FALSE)
    /\ UNCHANGED <<columns, metrics, clusters, pending>>
    /\ UNCHANGED refreshVars

DatasourceDelete(pk) ==
    /\ pk \in DOMAIN datasources
    /\ datasources' = IF DatasourceCanDelete THEN Remove(datasources, pk) ELSE datasources
    /\ last' = Outcome("datasource", "delete", pk,
                       IF DatasourceCanDelete THEN NoError ELSE AccessDenied, <<>>,
                       DatasourceCanDelete)
    /\ UNCHANGED <<columns, metrics, clusters, perms, pending>>
    /\ UNCHANGED refreshVars


(***************************************************************************)
(* Form inputs                                                             *)
(***************************************************************************)
Atoms == {<<"s", "a">>, <<"s", "1">>, <<"n", "1">>}

ValueTexts == {<<t>> : t \in Atoms} \cup {<<LBRACE, RBRACE>>}

Keys == {"outputName", "dimension", "other"}

PairTexts == {<<<<"s", k>>, COLON>> \o v : k \in Keys, v \in ValueTexts}

RECURSIVE MemberTexts(_)
\* n key/value pairs separated by commas
MemberTexts(n) ==
    IF n = 1 THEN PairTexts
    ELSE {m \o <<COMMA>> \o p : m \in MemberTexts(n - 1), p \in PairTexts}

ObjectTexts ==
    {<<LBRACE, RBRACE>>}
    \cup UNION {{<<LBRACE>> \o m \o <<RBRACE>> : m \in MemberTexts(n)} : n \in 1..MaxPairs}

ArrayTexts ==
    {<<LBRACK, RBRACK>>}
    \cup {<<LBRACK>> \o v \o <<RBRACK>> : v \in ValueTexts}
    \cup {<<LBRACK>> \o v \o <<COMMA>> \o w \o <<RBRACK>> : v \in ValueTexts, w \in ValueTexts}

WordTexts == {<<<<"w", "null">>>>, <<<<"w", "true">>>>, <<<<"w", "oops">>>>}

WellFormedTexts == ObjectTexts \cup ArrayTexts \cup ValueTexts \cup WordTexts

RemoveAt(t, i) == SubSeq(t, 1, i - 1) \o SubSeq(t, i + 1, Len(t))

\* A well-formed text with one token lost, with a stray token after it, or with white space.
DamagedTexts ==
    UNION {{RemoveAt(t, i) : i \in 1..Len(t)} : t \in WellFormedTexts}
    \cup {t \o <<RBRACE>> : t \in ArrayTexts \cup ValueTexts}
    \cup {<<SPACE>> \o t \o <<SPACE>> : t \in ArrayTexts \cup ValueTexts}
    \cup {<<SPACE>>}

Texts == WellFormedTexts \cup DamagedTexts \cup {<<>>}

NoSpec == [present |-> FALSE, text |-> <<>>]

DimensionSpecs == {NoSpec} \cup {[present |-> TRUE, text |-> t] : t \in Texts}

ColumnForms == [column_name : ColumnNames, dimension_spec_json : DimensionSpecs]

\* The forms of SpecCrud, SpecMetric and SpecDatasource.
BadSpec == [present |-> TRUE, text |-> <<LBRACK, RBRACK>>]

CrudColumnForms == [column_name : {"a"}, dimension_spec_json : {NoSpec, BadSpec}]

MetricForms == [metric_name : {"m1", "m2"}, is_restricted : BOOLEAN]

CrudMetricForms == [metric_name : {"m1"}, is_restricted : BOOLEAN]

DatasourceNames == {"d1", "d2"}

DatasourceForms == [name : DatasourceNames, schema : {"", "main"}]

CrudDatasourceForms == [name : {"d1"}, schema : {""}]

ClusterForms == [cluster_name : {"c1"}]

EmptyTable == [k \in {} |-> NoSpec]

(***************************************************************************)
(* SpecValidate: one Column form, submitted as an add or as the edit of a  *)
(* row already stored.                                                     *)
(***************************************************************************)
IdleRequest ==
    [pc |-> "idle", n |-> 0, endpoint |-> "", refreshAll |-> TRUE, i |-> 0, calls |-> <<>>,
     flashes |-> <<>>, stamped |-> <<>>, commits |-> 0, redirect |-> ""]

RefreshIdle ==
    /\ order = <<>>
    /\ failing = {}
    /\ session_ts = EmptyTable
    /\ stored_ts = EmptyTable
    /\ clock = 0
    /\ req = IdleRequest
    /\ seen = EmptyTable

CrudEmpty ==
    /\ columns = EmptyTable
    /\ metrics = EmptyTable
    /\ datasources = EmptyTable
    /\ clusters = EmptyTable
    /\ perms = {}
    /\ last = NoRequest

SeedRow == [column_name |-> "a", dimension_spec_json |-> NoSpec]

SeedTable == [k \in {1} |-> SeedRow]

InitValidate ==
    /\ columns \in {EmptyTable, SeedTable}
    /\ metrics = EmptyTable
    /\ datasources = EmptyTable
    /\ clusters = EmptyTable
    /\ perms = {}
    /\ last = NoRequest
    /\ pending \in ColumnForms
    /\ RefreshIdle

SubmitAdd ==
    /\ last.op = "none"
    /\ ColumnAdd(pending)

SubmitEdit ==
    /\ last.op = "none"
    /\ \E pk \in DOMAIN columns : ColumnUpdate(pk, pending)

NextValidate == SubmitAdd \/ SubmitEdit

SpecValidate == InitValidate /\ [][NextValidate]_vars


(***************************************************************************)
(* SpecCrud, SpecMetric, SpecDatasource: requests to the CRUD screens      *)
(***************************************************************************)
InitCrud ==
    /\ CrudEmpty
    /\ pending = SeedRow
    /\ RefreshIdle

ColumnScreen ==
    \/ \E f \in CrudColumnForms : ColumnAdd(f)
    \/ \E pk \in Pks, f \in CrudColumnForms : ColumnUpdate(pk, f)
    \/ \E pk \in Pks : ColumnDelete(pk)

MetricScreen(forms) ==
    \/ \E f \in forms : MetricAdd(f)
    \/ \E pk \in Pks, f \in forms : MetricUpdate(pk, f)
    \/ \E pk \in Pks : MetricDelete(pk)

ClusterScreen ==
    \/ \E f \in ClusterForms : ClusterAdd(f)
    \/ \E pk \in Pks, f \in ClusterForms : ClusterUpdate(pk, f)
    \/ \E pk \in Pks : ClusterDelete(pk)

DatasourceScreen(forms) ==
    \/ \E f \in forms : DatasourceAdd(f)
    \/ \E pk \in Pks, f \in forms : DatasourceUpdate(pk, f.name)
    \/ \E pk \in Pks : DatasourceDelete(pk)

NextCrud ==
    \/ ColumnScreen
    \/ MetricScreen(CrudMetricForms)
    \/ ClusterScreen
    \/ DatasourceScreen(CrudDatasourceForms)

SpecCrud == InitCrud /\ [][NextCrud]_vars

NextMetric == MetricScreen(MetricForms)

SpecMetric == InitCrud /\ [][NextMetric]_vars

NextDatasource == DatasourceScreen(DatasourceForms)

SpecDatasource == InitCrud /\ [][NextDatasource]_vars


(***************************************************************************)
(* Claims about the Column validator (SpecValidate)                        *)
(***************************************************************************)
Parsed(col) == json_loads(col.dimension_spec_json.text)

\* The dimension spec is empty or absent, or it parses to an object that holds the key
\* dimension and the key outputName with the column's name as its value.
Acceptable(col) ==
    \/ ~col.dimension_spec_json.present
    \/ col.dimension_spec_json.text = <<>>
    \/ /\ Parsed(col).ok
       /\ Parsed(col).val[1] = "dict"
       /\ "dimension" \in DOMAIN Parsed(col).val[2]
       /\ "outputName" \in DOMAIN Parsed(col).val[2]
       /\ Parsed(col).val[2]["outputName"] = <<"str", col.column_name>>

Edited == last.view = "column" /\ last.op = "update"

Added == last.view = "column" /\ last.op = "add"

\* C1: for every column name and dimension spec presented to pre_update, validation
\* passes exactly when the spec is empty/absent or parses to a JSON object with the key
\* dimension and with outputName equal to the column name; otherwise it raises.
C1_ValidationIff == Edited => (last.error = NoError <=> Acceptable(pending))

\* A non-empty dimension spec passed the validator on an edit.
C1_Witness ==
    /\ Edited
    /\ last.error = NoError
    /\ Truthy(pending.dimension_spec_json)
    /\ columns[last.pk] = pending

\* C8: the validator runs on edit only: an add raises no validation error and writes
\* the row whatever the dimension spec is, while an edit with a rejected value fails,
\* leaves the stored row as it was and runs no post_update.
C8_UpdateOnly ==
    /\ Added => last.error = NoError /\ columns[last.pk] = pending
    /\ (Edited /\ ~Acceptable(pending)) =>
           /\ last.error # NoError
           /\ columns[last.pk] = SeedRow
           /\ last.calls = <<>>

\* A dimension spec the validator rejects was added.
C8_Witness == Added /\ ~Acceptable(pending) /\ columns[last.pk] = pending

\* The checks of pre_update a non-empty spec violates, numbered in the order
\* parse failure, not an object, no outputName, no dimension, outputName # column name.
Violated(col) ==
    LET r == Parsed(col) IN
    (IF ~r.ok THEN {1} ELSE {})
    \cup (IF r.ok /\ r.val[1] # "dict" THEN {2} ELSE {})
    \cup (IF r.ok /\ r.val[1] = "dict" /\ "outputName" \notin DOMAIN r.val[2] THEN {3} ELSE {})
    \cup (IF r.ok /\ r.val[1] = "dict" /\ "dimension" \notin DOMAIN r.val[2] THEN {4} ELSE {})
    \cup (IF r.ok /\ r.val[1] = "dict" /\ "outputName" \in DOMAIN r.val[2]
             /\ r.val[2]["outputName"] # <<"str", col.column_name>> THEN {5} ELSE {})

ErrorOf(check) ==
    CASE check = 1 -> "Invalid Dimension Spec JSON"
      [] check = 2 -> "Dimension Spec must be a JSON object"
      [] check = 3 -> "Dimension Spec does not contain outputName"
      [] check = 4 -> "Dimension Spec is missing dimension"
      [] check = 5 -> "outputName unequal to column_name"

Earliest(checks) == CHOOSE c \in checks : \A d \in checks : c <= d

\* C10: for a non-empty spec that violates one or more checks, the one error raised is
\* that of the earliest violated check in the order parse failure, not an object,
\* missing outputName, missing dimension, outputName different from the column name.
C10_FirstFailingCheck ==
    (Edited /\ Truthy(pending.dimension_spec_json) /\ Violated(pending) # {}) =>
        last.error = ErrorOf(Earliest(Violated(pending)))

\* An object with neither key (and so several violated checks) was rejected for outputName.
C10_Witness ==
    /\ Edited
    /\ Truthy(pending.dimension_spec_json)
    /\ Cardinality(Violated(pending)) > 1
    /\ last.error = ErrorOf(3)

(***************************************************************************)
(* Claims about the CRUD screens                                           *)
(***************************************************************************)
MergeCalls(calls) == SelectSeq(calls, LAMBDA c : c[1] = "merge_perm")

\* C4: a Metric add or update makes exactly one merge_perm call, for metric_access and
\* the metric's own permission key, when the metric is restricted, and none otherwise.
C4_RestrictedMetricPerm ==
    (last.view = "metric" /\ last.op \in {"add", "update"}) =>
        MergeCalls(last.calls) =
            IF metrics[last.pk].is_restricted
            THEN << <<"merge_perm", "metric_access", Metric_get_perm(metrics[last.pk], last.pk)>> >>
            ELSE <<>>

\* A restricted metric was updated and its permission registered.
C4_Witness ==
    /\ last.view = "metric"
    /\ last.op = "update"
    /\ metrics[last.pk].is_restricted
    /\ <<"metric_access", Metric_get_perm(metrics[last.pk], last.pk)>> \in perms

\* C5 as stated: a delete request removes the row on the Cluster and Datasource screens
\* and never removes a row on the Column screen or on the Metric screen.
C5_ColumnAndMetricKept ==
    last.op = "delete" => (last.removed <=> last.view \in {"cluster", "datasource"})

\* C5 as amended: a delete request removes the row on the Cluster, Datasource and Metric
\* screens; on the Column screen it is refused and the row stays.
C5_OnlyColumnKept ==
    /\ last.op = "delete" => (last.removed <=> last.view \in {"cluster", "datasource", "metric"})
    /\ (last.op = "delete" /\ last.view = "column") =>
           last.pk \in DOMAIN columns /\ last.error = AccessDenied
    /\ (last.op = "delete" /\ last.view = "metric") => last.pk \notin DOMAIN metrics
    /\ (last.op = "delete" /\ last.view = "cluster") => last.pk \notin DOMAIN clusters
    /\ (last.op = "delete" /\ last.view = "datasource") => last.pk \notin DOMAIN datasources

\* A delete was refused on the Column screen.
C5_Witness == last.op = "delete" /\ last.view = "column" /\ last.pk \in DOMAIN columns

\* C6: after every add and every update of a Datasource, datasource_access with the
\* datasource's permission key is registered with the security manager.
C6_DatasourcePermRegistered ==
    (last.view = "datasource" /\ last.op \in {"add", "update"}) =>
        <<"datasource_access", Datasource_get_perm(datasources[last.pk], last.pk)>> \in perms


(***************************************************************************)
(* The refresh endpoints (class Vaex)                                      *)
(***************************************************************************)
ClusterIds == 1..MaxClusters

ClusterList == "/vaexclustermodelview/list/"

DatasourceList == "/vaexdatasourcemodelview/list/"

Range(q) == {q[j] : j \in DOMAIN q}

\* What the user sees of a finished request.
Summary(r) ==
    [clusters |-> [j \in DOMAIN r.calls |-> r.calls[j][1]],
     flags |-> {r.calls[j][2] : j \in DOMAIN r.calls},
     stamped |-> r.stamped, flashes |-> r.flashes,
     commits |-> r.commits, redirect |-> r.redirect]

\* refresh_datasources(refreshAll) up to the loop: a session for this request and the
\* clusters it loads from the stored rows.
refresh_datasources(endpoint, refreshAll) ==
    /\ req.pc \in {"idle", "done"}
    /\ req.n < MaxRequests
    /\ req' = [IdleRequest EXCEPT !.pc = "loop", !.n = req.n + 1, !.endpoint = endpoint,
                                  !.refreshAll = refreshAll, !.i = 1]
    /\ session_ts' = stored_ts
    /\ UNCHANGED <<order, failing, stored_ts, clock, seen>>
    /\ UNCHANGED crudVars

\* GET /vaex/refresh_datasources/
RefreshDatasources == refresh_datasources("refresh_datasources", TRUE)

\* scan_new_datasources passing refreshAll=True
scan_new_datasources_refreshing_all == refresh_datasources("scan_new_datasources", TRUE)

\* GET /vaex/scan_new_datasources/
scan_new_datasources == refresh_datasources("scan_new_datasources", FALSE)

\* A loop iteration in which cluster.refresh_datasources returns.
ClusterRefreshed ==
    /\ req.pc = "loop"
    /\ req.i <= Len(order)
    /\ order[req.i] \notin failing
    /\ LET c == order[req.i] IN
       /\ clock' = clock + 1
       /\ session_ts' = [session_ts EXCEPT ![c] = clock + 1]
       /\ req' = [req EXCEPT !.calls = Append(@, <<c, req.refreshAll>>),
                             !.stamped = Append(@, c),
                             !.flashes = Append(@, <<"info", c>>),
                             !.i = @ + 1]
    /\ UNCHANGED <<order, failing, stored_ts, seen>>
    /\ UNCHANGED crudVars

\* A failing iteration that flashes and goes on with the next cluster
ClusterRaised_continuing ==
    /\ req.pc = "loop"
    /\ req.i <= Len(order)
    /\ order[req.i] \in failing
    /\ LET c == order[req.i] IN
       req' = [req EXCEPT !.calls = Append(@, <<c, req.refreshAll>>),
                          !.flashes = Append(@, <<"danger", c>>),
                          !.i = @ + 1]
    /\ UNCHANGED <<order, failing, session_ts, stored_ts, clock, seen>>
    /\ UNCHANGED crudVars

\* A failing iteration that commits the session before it redirects
ClusterRaised_committing ==
    /\ req.pc = "loop"
    /\ req.i <= Len(order)
    /\ order[req.i] \in failing
    /\ LET c == order[req.i]
           r == [req EXCEPT !.calls = Append(@, <<c, req.refreshAll>>),
                            !.flashes = Append(@, <<"danger", c>>),
                            !.redirect = ClusterList,
                            !.pc = "done"]
       IN  /\ req' = r
           /\ seen' = Insert(seen, req.endpoint, Summary(r))
    /\ stored_ts' = session_ts
    /\ UNCHANGED <<order, failing, session_ts, clock>>
    /\ UNCHANGED crudVars

\* A loop iteration in which cluster.refresh_datasources raises: flash, log, redirect.
ClusterRaised ==
    /\ req.pc = "loop"
    /\ req.i <= Len(order)
    /\ order[req.i] \in failing
    /\ LET c == order[req.i]
           r == [req EXCEPT !.calls = Append(@, <<c, req.refreshAll>>),
                            !.flashes = Append(@, <<"danger", c>>),
                            !.redirect = ClusterList,
                            !.pc = "done"]
       IN  /\ req' = r
           /\ seen' = Insert(seen, req.endpoint, Summary(r))
    /\ UNCHANGED <<order, failing, session_ts, stored_ts, clock>>
    /\ UNCHANGED crudVars

\* The end of the loop without session.commit()
Commit_skipped ==
    /\ req.pc = "loop"
    /\ req.i > Len(order)
    /\ LET r == [req EXCEPT !.redirect = DatasourceList, !.pc = "done"]
       IN  /\ req' = r
           /\ seen' = Insert(seen, req.endpoint, Summary(r))
    /\ UNCHANGED <<order, failing, session_ts, stored_ts, clock>>
    /\ UNCHANGED crudVars

\* After the loop: session.commit() and the redirect to the datasource list.
Commit ==
    /\ req.pc = "loop"
    /\ req.i > Len(order)
    /\ stored_ts' = session_ts
    /\ LET r == [req EXCEPT !.commits = @ + 1, !.redirect = DatasourceList, !.pc = "done"]
       IN  /\ req' = r
           /\ seen' = Insert(seen, req.endpoint, Summary(r))
    /\ UNCHANGED <<order, failing, session_ts, clock>>
    /\ UNCHANGED crudVars

\* The sequences without repetition over the subsets of the cluster ids.
Orders ==
    UNION {{q \in [1..n -> ClusterIds] : \A j, k \in 1..n : j # k => q[j] # q[k]} :
           n \in 0..MaxClusters}

InitRefresh ==
    /\ CrudEmpty
    /\ pending = SeedRow
    /\ order \in Orders
    /\ failing \in SUBSET Range(order)
    /\ stored_ts = [c \in Range(order) |-> 0]
    /\ session_ts = stored_ts
    /\ clock = 0
    /\ req = IdleRequest
    /\ seen = EmptyTable

NextRefresh ==
    \/ RefreshDatasources
    \/ scan_new_datasources
    \/ ClusterRefreshed
    \/ ClusterRaised
    \/ Commit

SpecRefresh == InitRefresh /\ [][NextRefresh]_vars


(***************************************************************************)
(* Claims about the refresh workflow (SpecRefresh)                         *)
(***************************************************************************)
Finished == req.pc = "done"

SomeRaises == \E j \in DOMAIN order : order[j] \in failing

\* The position of the first cluster whose refresh raises.
FirstRaising == CHOOSE j \in DOMAIN order :
                    order[j] \in failing /\ \A k \in 1..(j - 1) : order[k] \notin failing

\* C2: when cluster k is the first whose refresh raises, every cluster before k was
\* refreshed once, stamped and announced with an info message; k got one danger message
\* and no stamp; no later cluster was refreshed or stamped; nothing was committed; and
\* the redirect goes to the cluster list.
C2_FirstFailureAborts ==
    (Finished /\ SomeRaises) =>
        LET k == FirstRaising IN
        /\ Len(req.calls) = k
        /\ \A j \in 1..k : req.calls[j] = <<order[j], req.refreshAll>>
        /\ req.stamped = SubSeq(order, 1, k - 1)
        /\ Len(req.flashes) = k
        /\ \A j \in 1..(k - 1) : req.flashes[j] = <<"info", order[j]>>
        /\ req.flashes[k] = <<"danger", order[k]>>
        /\ \A j \in 1..(k - 1) : session_ts[order[j]] > stored_ts[order[j]]
        /\ \A j \in k..Len(order) : session_ts[order[j]] = stored_ts[order[j]]
        /\ req.commits = 0
        /\ req.redirect = ClusterList

\* A run aborted at a cluster that has clusters before it and after it.
C2_Witness ==
    /\ Finished
    /\ SomeRaises
    /\ 1 < FirstRaising
    /\ FirstRaising < Len(order)
    /\ req.redirect = ClusterList

\* C3: when no refresh raises (the empty cluster list included), every cluster is
\* refreshed once in iteration order, stamped and announced, one commit is performed,
\* only after the last cluster was refreshed and stamped, and the redirect goes to the
\* datasource list.
C3_AllSucceedCommitOnce ==
    /\ req.commits > 0 => (req.commits = 1 /\ Finished /\ req.stamped = order)
    /\ (Finished /\ ~SomeRaises) =>
           /\ Len(req.calls) = Len(order)
           /\ \A j \in DOMAIN order : req.calls[j] = <<order[j], req.refreshAll>>
           /\ req.stamped = order
           /\ Len(req.flashes) = Len(order)
           /\ \A j \in DOMAIN order : req.flashes[j] = <<"info", order[j]>>
           /\ \A j \in DOMAIN order : stored_ts[order[j]] = session_ts[order[j]]
           /\ \A j \in DOMAIN order : session_ts[order[j]] = clock - Len(order) + j
           /\ req.commits = 1
           /\ req.redirect = DatasourceList

\* A run over two or more clusters, none raising, came to its end.
C3_Witness ==
    /\ Finished
    /\ ~SomeRaises
    /\ Len(order) >= 2
    /\ req.commits = 1
    /\ \A c \in Range(order) : stored_ts[c] > 0

Aborted == Finished /\ req.redirect = ClusterList

\* C7 as stated: when a run aborts, the timestamps stamped on the clusters before the
\* failure are in the stored cluster records.
C7_ProgressStored ==
    Aborted => \A c \in Range(req.stamped) : stored_ts[c] = session_ts[c]

\* C7 as amended: when a run aborts it has neither rolled back nor committed: the
\* timestamps stamped before the failure are on the session's cluster objects and
\* not in the stored cluster records.
C7_ProgressOnlyInSession ==
    Aborted =>
        /\ req.commits = 0
        /\ \A c \in Range(req.stamped) : session_ts[c] > 0 /\ stored_ts[c] # session_ts[c]

\* A run aborted after it had stamped a cluster.
C7_Witness == Aborted /\ req.stamped # <<>>

Blind(summary) == [summary EXCEPT !.flags = {}]

\* C9: scan_new_datasources calls each cluster's refresh with refreshAll=False and
\* refresh_datasources with refreshAll=True, and over the same clusters and the same
\* failures the two give the same calls, stamps, messages, commits and redirect.
C9_ScanIsRefreshWithFlag ==
    /\ "refresh_datasources" \in DOMAIN seen => seen["refresh_datasources"].flags \subseteq {TRUE}
    /\ "scan_new_datasources" \in DOMAIN seen => seen["scan_new_datasources"].flags \subseteq {FALSE}
    /\ DOMAIN seen = {"refresh_datasources", "scan_new_datasources"} =>
           Blind(seen["scan_new_datasources"]) = Blind(seen["refresh_datasources"])

\* Both endpoints were served, each refreshing at least one cluster, one run aborting.
C9_Witness ==
    /\ DOMAIN seen = {"refresh_datasources", "scan_new_datasources"}
    /\ seen["scan_new_datasources"].flags = {FALSE}
    /\ seen["refresh_datasources"].flags = {TRUE}
    /\ seen["scan_new_datasources"].stamped # <<>>
    /\ seen["scan_new_datasources"].redirect = ClusterList

====
